---------------------------- MODULE Spec2Model ----------------------------
(***************************************************************************)
(* BOCU-1 codec of graydon/bocu1: trailing-byte selection, the            *)
(* variable-length code, the delta coder, the packed representation and   *)
(* the decoding iterators, as a state machine over code points and bytes. *)
(* Code points and bytes are integers; a char is a Unicode scalar value.  *)
(***************************************************************************)
EXTENDS Integers, Sequences, FiniteSets, TLC

VARIABLES
    input,      \* the chars fed so far to the encoder (s.chars())
    coder,      \* EncodedChunkIter.coder : DeltaCoder of the encoder
    chunks,     \* the EncodedChunk returned by each encode_char call
    wire,       \* the byte stream: as_slice of every chunk, plus injected 0xFF
    marks,      \* layout of wire: "lead" | "trail" | "reset" | "midreset"
    phase,      \* "encode" | "wire" | "char" | "iter" | "packed" | "unpack" |
                \* "start" | "result" | "call" | "panic"
    slice,      \* DecodeResultIter.slice : bytes not yet decoded
    state,      \* DecodeResultIter.state : DeltaCoder of the decoder
    decoded,    \* the chars produced by the decoder so far
    last,       \* outcome of the latest decoder call
    ref,        \* RefImplEncodedChunkIter: [prev, pos, out]
    input2,     \* second string of a comparison (check_two)
    coder2,     \* its encoder
    wire2,      \* its encoded bytes
    packed,     \* results of pack::<N> on the two strings
    probe,      \* arguments and results of the codec's functions called alone
    drainer     \* DrainEncodedChunkIter: [drain, index], the latest item
                \* returned and whether its input string has ended

vars == <<input, coder, chunks, wire, marks, phase, slice, state, decoded,
          last, ref, input2, coder2, wire2, packed, probe, drainer>>

-----------------------------------------------------------------------------
(* Bounds of the model *)

\* longest input string of Spec (encode, inject, decode)
MaxLen == 3
\* most 0xFF bytes injected into one encoded stream
MaxInject == 1
\* longest input string of SpecEnc (encoder against the reference encoder)
MaxEncLen == 3
\* longest string of a pair in SpecPair
MaxPairLen == 2

\* code points fed to the encoder in Spec
Chars == {\h0A, \h20, \h41, \h172, \h3042, \hD7FF, \h10FFFF}

\* code points fed to the encoder in SpecEnc: both ends of every delta range
\* seen from prev = 0x40, the ends of the trail spans, the script blocks and
\* the ends of the scalar range
WideChars == {\h00, \h07, \h20, \h21, \h41, \h7F, \h86, \h93, \h172, \h2951,
              \h3042, \h9FA5, \hD7FF, \hE000, \h2DD4C, \h10FFFF}

\* code points of the strings compared in SpecPair
PairChars == {\h00, \h1F, \h20, \h41, \h110, \h172, \h10FFFF}

\* sizes in bytes of the scalar types pack is instantiated at
Widths == {1, 2, 4, 8, 16}

-----------------------------------------------------------------------------
(* Rust primitives *)

\* Option<char>: None is the empty tuple, Some(c) the tuple of c
None == <<>>

Some(c) == <<c>>

\* std::char::from_u32 accepts exactly the Unicode scalar values
IsScalar(n) ==
    (0 <= n /\ n < \hD800) \/ (\hE000 <= n /\ n <= \h10FFFF)

\* the range pattern lo..=hi
InRange(n, lo, hi) == lo <= n /\ n <= hi

Abs(n) == IF n < 0 THEN -n ELSE n

\* i32 `/` : truncates toward zero
TruncDiv(a, b) ==
    IF (a < 0) = (b < 0) THEN Abs(a) \div Abs(b) ELSE -(Abs(a) \div Abs(b))

\* i32 `%` : remainder with the sign of the dividend
TruncRem(a, b) == a - b * TruncDiv(a, b)

\* div_euc without its correction for a negative remainder: the quotient
\* of i32 `/`
div_euc_Trunc(self, rhs) == TruncDiv(self, rhs)

\* Euc::div_euc for i32
div_euc(self, rhs) ==
    LET q == TruncDiv(self, rhs)
    IN  IF TruncRem(self, rhs) < 0
        THEN IF rhs > 0 THEN q - 1 ELSE q + 1
        ELSE q

mod_euc(self, rhs) ==
    LET r == TruncRem(self, rhs)
    IN  IF r < 0
        THEN IF rhs < 0 THEN r - rhs ELSE r + rhs
        ELSE r

-----------------------------------------------------------------------------
(* Part 3: trailing-byte selection *)

N_EXCLUDED_CODES == 13

N_TRAIL_VALUES == 256 - N_EXCLUDED_CODES

EXCLUDED_CODE_BYTES ==
    {\h00, \h07, \h08, \h09, \h0A, \h0B, \h0C, \h0D, \h0E, \h0F, \h1A, \h1B, \h20}

\* trail_to_byte with a slip in its second arm: the nine C0 codes are not
\* skipped
trail_to_byte_NoC0Skip(b) ==
    LET v == IF InRange(b, \h00, \h05) THEN b + 1
             ELSE IF InRange(b, \h06, \h0F) THEN b + 1
             ELSE IF InRange(b, \h10, \h13) THEN b + 1 + 9 + 2
             ELSE b + 1 + 9 + 2 + 1
    IN  [v |-> v, panic |-> ~(b < N_TRAIL_VALUES) \/ v > \hFF]

\* [v, panic]: the byte, and whether one of the two assertions failed
trail_to_byte(b) ==
    LET v == IF InRange(b, \h00, \h05) THEN b + 1
             ELSE IF InRange(b, \h06, \h0F) THEN b + 1 + 9
             ELSE IF InRange(b, \h10, \h13) THEN b + 1 + 9 + 2
             ELSE b + 1 + 9 + 2 + 1
    IN  [v |-> v,
         panic |-> ~(b < N_TRAIL_VALUES) \/ v > \hFF \/ v \in EXCLUDED_CODE_BYTES]

\* byte_to_trail with a slip in its last arm: one skipped byte too few
byte_to_trail_OffByOne(b) ==
    IF InRange(b, \h01, \h06) THEN [ok |-> TRUE, v |-> b - 1]
    ELSE IF InRange(b, \h10, \h19) THEN [ok |-> TRUE, v |-> (b - 1) - 9]
    ELSE IF InRange(b, \h1C, \h1F) THEN [ok |-> TRUE, v |-> ((b - 1) - 9) - 2]
    ELSE IF InRange(b, \h21, \hFF) THEN [ok |-> TRUE, v |-> ((b - 1) - 9) - 2]
    ELSE [ok |-> FALSE, err |-> <<"TrailByteOutOfRange", b>>]

\* byte_to_trail with its last arm starting at 0x20: the space is taken
\* for a trail byte
byte_to_trail_AcceptsSP(b) ==
    IF InRange(b, \h01, \h06) THEN [ok |-> TRUE, v |-> b - 1]
    ELSE IF InRange(b, \h10, \h19) THEN [ok |-> TRUE, v |-> (b - 1) - 9]
    ELSE IF InRange(b, \h1C, \h1F) THEN [ok |-> TRUE, v |-> ((b - 1) - 9) - 2]
    ELSE IF InRange(b, \h20, \hFF) THEN [ok |-> TRUE, v |-> (((b - 1) - 9) - 2) - 1]
    ELSE [ok |-> FALSE, err |-> <<"TrailByteOutOfRange", b>>]

\* Ok(trail value) or Err(TrailByteOutOfRange(b))
byte_to_trail(b) ==
    IF InRange(b, \h01, \h06) THEN [ok |-> TRUE, v |-> b - 1]
    ELSE IF InRange(b, \h10, \h19) THEN [ok |-> TRUE, v |-> (b - 1) - 9]
    ELSE IF InRange(b, \h1C, \h1F) THEN [ok |-> TRUE, v |-> ((b - 1) - 9) - 2]
    ELSE IF InRange(b, \h21, \hFF) THEN [ok |-> TRUE, v |-> (((b - 1) - 9) - 2) - 1]
    ELSE [ok |-> FALSE, err |-> <<"TrailByteOutOfRange", b>>]

-----------------------------------------------------------------------------
(* Part 2: variable-length code *)

LEAD_BYTE_RESET == \hFF

LEAD_BYTE_ASCII_SP == \h20

\* EncodedChunk::new_single
new_single(lead) == [bytes |-> <<lead, 0, 0, 0>>, count |-> 1, panic |-> FALSE]

\* EncodedChunk::as_slice
as_slice(chunk) == SubSeq(chunk.bytes, 1, chunk.count)

\* the match of encode_delta with the one-byte arm based at the first lead
\* byte 0x50 of its row instead of the middle 0x90
EncodeRange_FirstLead(delta) ==
    IF InRange(delta, -\h10FF9F, -\h2DD0D) THEN <<-\h2DD0C, \h22, 4>>
    ELSE IF InRange(delta, -\h2DD0C, -\h2912) THEN <<-\h2911, \h25, 3>>
    ELSE IF InRange(delta, -\h2911, -\h41) THEN <<-\h40, \h50, 2>>
    ELSE IF InRange(delta, -\h40, \h3F) THEN <<0, \h50, 1>>
    ELSE IF InRange(delta, \h40, \h2910) THEN <<\h40, \hD0, 2>>
    ELSE IF InRange(delta, \h2911, \h2DD0B) THEN <<\h2911, \hFB, 3>>
    ELSE IF InRange(delta, \h2DD0C, \h10FFBF) THEN <<\h2DD0C, \hFE, 4>>
    ELSE <<>>

\* the match of encode_delta with the last arm's lead byte one too high
EncodeRange_LeadFF(delta) ==
    IF InRange(delta, -\h10FF9F, -\h2DD0D) THEN <<-\h2DD0C, \h22, 4>>
    ELSE IF InRange(delta, -\h2DD0C, -\h2912) THEN <<-\h2911, \h25, 3>>
    ELSE IF InRange(delta, -\h2911, -\h41) THEN <<-\h40, \h50, 2>>
    ELSE IF InRange(delta, -\h40, \h3F) THEN <<0, \h90, 1>>
    ELSE IF InRange(delta, \h40, \h2910) THEN <<\h40, \hD0, 2>>
    ELSE IF InRange(delta, \h2911, \h2DD0B) THEN <<\h2911, \hFB, 3>>
    ELSE IF InRange(delta, \h2DD0C, \h10FFBF) THEN <<\h2DD0C, \hFF, 4>>
    ELSE <<>>

\* encode_delta's match with the one-byte range starting one delta late
EncodeRange_ShortSingle(delta) ==
    IF InRange(delta, -\h10FF9F, -\h2DD0D) THEN <<-\h2DD0C, \h22, 4>>
    ELSE IF InRange(delta, -\h2DD0C, -\h2912) THEN <<-\h2911, \h25, 3>>
    ELSE IF InRange(delta, -\h2911, -\h3F) THEN <<-\h40, \h50, 2>>
    ELSE IF InRange(delta, -\h3E, \h3F) THEN <<0, \h90, 1>>
    ELSE IF InRange(delta, \h40, \h2910) THEN <<\h40, \hD0, 2>>
    ELSE IF InRange(delta, \h2911, \h2DD0B) THEN <<\h2911, \hFB, 3>>
    ELSE IF InRange(delta, \h2DD0C, \h10FFBF) THEN <<\h2DD0C, \hFE, 4>>
    ELSE <<>>

\* encode_delta's match with the one-byte codes centred one lead byte low
EncodeRange_SingleBase(delta) ==
    IF InRange(delta, -\h10FF9F, -\h2DD0D) THEN <<-\h2DD0C, \h22, 4>>
    ELSE IF InRange(delta, -\h2DD0C, -\h2912) THEN <<-\h2911, \h25, 3>>
    ELSE IF InRange(delta, -\h2911, -\h41) THEN <<-\h40, \h50, 2>>
    ELSE IF InRange(delta, -\h40, \h3F) THEN <<0, \h8F, 1>>
    ELSE IF InRange(delta, \h40, \h2910) THEN <<\h40, \hD0, 2>>
    ELSE IF InRange(delta, \h2911, \h2DD0B) THEN <<\h2911, \hFB, 3>>
    ELSE IF InRange(delta, \h2DD0C, \h10FFBF) THEN <<\h2DD0C, \hFE, 4>>
    ELSE <<>>

\* encode_delta's match with the two-byte range reaching one delta too far
EncodeRange_LongTwo(delta) ==
    IF InRange(delta, -\h10FF9F, -\h2DD0D) THEN <<-\h2DD0C, \h22, 4>>
    ELSE IF InRange(delta, -\h2DD0C, -\h2912) THEN <<-\h2911, \h25, 3>>
    ELSE IF InRange(delta, -\h2911, -\h41) THEN <<-\h40, \h50, 2>>
    ELSE IF InRange(delta, -\h40, \h3F) THEN <<0, \h90, 1>>
    ELSE IF InRange(delta, \h40, \h2911) THEN <<\h40, \hD0, 2>>
    ELSE IF InRange(delta, \h2912, \h2DD0B) THEN <<\h2911, \hFB, 3>>
    ELSE IF InRange(delta, \h2DD0C, \h10FFBF) THEN <<\h2DD0C, \hFE, 4>>
    ELSE <<>>

\* the match of encode_delta with the negative rows based at their low end:
\* the offset is the lowest delta of the row and the lead its first lead byte
EncodeRange_LowOffset(delta) ==
    IF InRange(delta, -\h10FF9F, -\h2DD0D) THEN <<-\h10FF9F, \h21, 4>>
    ELSE IF InRange(delta, -\h2DD0C, -\h2912) THEN <<-\h2DD0C, \h22, 3>>
    ELSE IF InRange(delta, -\h2911, -\h41) THEN <<-\h2911, \h25, 2>>
    ELSE IF InRange(delta, -\h40, \h3F) THEN <<0, \h90, 1>>
    ELSE IF InRange(delta, \h40, \h2910) THEN <<\h40, \hD0, 2>>
    ELSE IF InRange(delta, \h2911, \h2DD0B) THEN <<\h2911, \hFB, 3>>
    ELSE IF InRange(delta, \h2DD0C, \h10FFBF) THEN <<\h2DD0C, \hFE, 4>>
    ELSE <<>>

\* the match of encode_delta: <<offset, lead, len>>, <<>> for the panic arm
EncodeRange(delta) ==
    IF InRange(delta, -\h10FF9F, -\h2DD0D) THEN <<-\h2DD0C, \h22, 4>>
    ELSE IF InRange(delta, -\h2DD0C, -\h2912) THEN <<-\h2911, \h25, 3>>
    ELSE IF InRange(delta, -\h2911, -\h41) THEN <<-\h40, \h50, 2>>
    ELSE IF InRange(delta, -\h40, \h3F) THEN <<0, \h90, 1>>
    ELSE IF InRange(delta, \h40, \h2910) THEN <<\h40, \hD0, 2>>
    ELSE IF InRange(delta, \h2911, \h2DD0B) THEN <<\h2911, \hFB, 3>>
    ELSE IF InRange(delta, \h2DD0C, \h10FFBF) THEN <<\h2DD0C, \hFE, 4>>
    ELSE <<>>

\* the loop `for i in (1..len).rev()` of encode_delta from index i down to 1,
\* on acc = [buf, d, panic]
RECURSIVE TrailLoop(_, _)
TrailLoop(i, acc) ==
    IF i < 1 THEN acc
    ELSE LET m  == mod_euc(acc.d, N_TRAIL_VALUES)
             d2 == div_euc(acc.d, N_TRAIL_VALUES)
             t  == trail_to_byte(m % 256)
         IN  TrailLoop(i - 1,
                 [buf   |-> [acc.buf EXCEPT ![i + 1] = t.v],
                  d     |-> d2,
                  panic |-> acc.panic \/ ~(0 <= m /\ m <= \hFF) \/ t.panic])

\* EncodedChunk {bytes, count}; panic when the code would have panicked
encode_delta(delta) ==
    LET sel == EncodeRange(delta)
    IN  IF sel = <<>> THEN [bytes |-> <<0, 0, 0, 0>>, count |-> 0, panic |-> TRUE]
        ELSE LET offset == sel[1]
                 lead   == sel[2]
                 len    == sel[3]
                 acc    == TrailLoop(len - 1,
                               [buf |-> <<lead, 0, 0, 0>>,
                                d |-> delta - offset, panic |-> FALSE])
                 init   == acc.buf[1] + acc.d
             IN  [bytes |-> [acc.buf EXCEPT ![1] = init % 256],
                  count |-> len,
                  panic |-> acc.panic \/ ~(0 < init /\ init <= \hFF)]

\* the match of decode_delta on the lead byte: <<offset, base, len>>
DecodeRange(lead) ==
    IF InRange(lead, \h21, \h21) THEN <<-\h2DD0C, \h22, 4>>
    ELSE IF InRange(lead, \h22, \h24) THEN <<-\h2911, \h25, 3>>
    ELSE IF InRange(lead, \h25, \h4F) THEN <<-\h40, \h50, 2>>
    ELSE IF InRange(lead, \h50, \hCF) THEN <<0, \h90, 1>>
    ELSE IF InRange(lead, \hD0, \hFA) THEN <<\h40, \hD0, 2>>
    ELSE IF InRange(lead, \hFB, \hFD) THEN <<\h2911, \hFB, 3>>
    ELSE IF InRange(lead, \hFE, \hFE) THEN <<\h2DD0C, \hFE, 4>>
    ELSE <<>>

\* b[from..] as a slice
SliceFrom(b, from) == SubSeq(b, from + 1, Len(b))

\* the loop `for i in 1..len` of decode_delta from index i, on the running
\* delta; the first excluded trail byte ends it with its error
RECURSIVE DecodeLoop(_, _, _, _)
DecodeLoop(b, i, len, delta) ==
    IF i >= len THEN [ok |-> TRUE, delta |-> delta]
    ELSE LET t == byte_to_trail(b[i + 1])
         IN  IF ~t.ok THEN [ok |-> FALSE, err |-> t.err]
             ELSE DecodeLoop(b, i + 1, len, delta * N_TRAIL_VALUES + t.v)

\* decode_delta finding the slice too short only once its trail bytes are
\* read
decode_delta_ChecksLate(b) ==
    IF Len(b) = 0 \/ ~(b[1] > LEAD_BYTE_ASCII_SP) \/ ~(b[1] # LEAD_BYTE_RESET)
    THEN [ok |-> FALSE, err |-> <<"panic">>]
    ELSE LET sel == DecodeRange(b[1])
         IN  IF sel = <<>> THEN [ok |-> FALSE, err |-> <<"panic">>]
             ELSE LET n == IF Len(b) < sel[3] THEN Len(b) ELSE sel[3]
                      r == DecodeLoop(b, 1, n, b[1] - sel[2])
                  IN  IF ~r.ok THEN r
                      ELSE IF Len(b) < sel[3]
                      THEN [ok |-> FALSE, err |-> <<"TruncatedInput">>]
                      ELSE [ok |-> TRUE, delta |-> r.delta + sel[1],
                            rest |-> SliceFrom(b, sel[3])]

\* Ok((delta, rest)) or Err; panic for an empty slice or a non-lead byte
decode_delta(b) ==
    IF Len(b) = 0 \/ ~(b[1] > LEAD_BYTE_ASCII_SP) \/ ~(b[1] # LEAD_BYTE_RESET)
    THEN [ok |-> FALSE, err |-> <<"panic">>]
    ELSE LET sel == DecodeRange(b[1])
         IN  IF sel = <<>> THEN [ok |-> FALSE, err |-> <<"panic">>]
             ELSE IF Len(b) < sel[3] THEN [ok |-> FALSE, err |-> <<"TruncatedInput">>]
             ELSE LET r == DecodeLoop(b, 1, sel[3], b[1] - sel[2])
                  IN  IF ~r.ok THEN r
                      ELSE [ok |-> TRUE, delta |-> r.delta + sel[1],
                            rest |-> SliceFrom(b, sel[3])]

-----------------------------------------------------------------------------
(* Part 1: delta encoding *)

INITIAL_PREVIOUS_STATE == \h40

ASCII_SP == \h20

\* normalized_prev without the arm of the Unihan block
normalized_prev_NoUnihan(curr) ==
    IF InRange(curr, \h3040, \h309F) THEN [ch |-> \h3070, panic |-> FALSE]
    ELSE IF InRange(curr, \hAC00, \hD7A3) THEN [ch |-> \hC1D1, panic |-> FALSE]
    ELSE LET guess_curr_block_start  == curr - (curr % \h80)
             guess_curr_block_middle == guess_curr_block_start + \h40
         IN  [ch |-> guess_curr_block_middle,
              panic |-> ~IsScalar(guess_curr_block_middle)]

\* normalized_prev snapping to the start of the block of 128, not its middle
normalized_prev_BlockStart(curr) ==
    IF InRange(curr, \h3040, \h309F) THEN [ch |-> \h3070, panic |-> FALSE]
    ELSE IF InRange(curr, \h4E00, \h9FA5) THEN [ch |-> \h7711, panic |-> FALSE]
    ELSE IF InRange(curr, \hAC00, \hD7A3) THEN [ch |-> \hC1D1, panic |-> FALSE]
    ELSE LET guess_curr_block_start  == curr - (curr % \h80)
         IN  [ch |-> guess_curr_block_start,
              panic |-> ~IsScalar(guess_curr_block_start)]

\* [ch, panic]: the attractor, and whether the expect on from_u32 failed
normalized_prev(curr) ==
    IF InRange(curr, \h3040, \h309F) THEN [ch |-> \h3070, panic |-> FALSE]
    ELSE IF InRange(curr, \h4E00, \h9FA5) THEN [ch |-> \h7711, panic |-> FALSE]
    ELSE IF InRange(curr, \hAC00, \hD7A3) THEN [ch |-> \hC1D1, panic |-> FALSE]
    ELSE LET guess_curr_block_start  == curr - (curr % \h80)
             guess_curr_block_middle == guess_curr_block_start + \h40
         IN  [ch |-> guess_curr_block_middle,
              panic |-> ~IsScalar(guess_curr_block_middle)]

\* DeltaCoder::new
DeltaCoder_new == [prev |-> INITIAL_PREVIOUS_STATE]

\* encode_char with `<` for `<=` in its first test: U+0020 is delta-coded
encode_char_SpaceCoded(self, curr) ==
    IF curr < ASCII_SP
    THEN [coder |-> [prev |-> INITIAL_PREVIOUS_STATE],
          chunk |-> new_single(curr % 256)]
    ELSE LET delta == curr - self.prev
             np    == normalized_prev(curr)
             enc   == encode_delta(delta)
         IN  [coder |-> [prev |-> np.ch],
              chunk |-> [enc EXCEPT !.panic = enc.panic \/ np.panic]]

\* encode_char without the test `curr != ASCII_SP`: U+0020 resets prev too
encode_char_SpaceResets(self, curr) ==
    IF curr <= ASCII_SP
    THEN [coder |-> [prev |-> INITIAL_PREVIOUS_STATE],
          chunk |-> new_single(curr % 256)]
    ELSE LET delta == curr - self.prev
             np    == normalized_prev(curr)
             enc   == encode_delta(delta)
         IN  [coder |-> [prev |-> np.ch],
              chunk |-> [enc EXCEPT !.panic = enc.panic \/ np.panic]]

\* encode_char without the reset of prev on a code point below U+0020
encode_char_NoControlReset(self, curr) ==
    IF curr <= ASCII_SP
    THEN [coder |-> self, chunk |-> new_single(curr % 256)]
    ELSE LET delta == curr - self.prev
             np    == normalized_prev(curr)
             enc   == encode_delta(delta)
         IN  [coder |-> [prev |-> np.ch],
              chunk |-> [enc EXCEPT !.panic = enc.panic \/ np.panic]]

\* encode_char taking U+0020 for the new prev
encode_char_SpaceMovesPrev(self, curr) ==
    IF curr <= ASCII_SP
    THEN [coder |-> IF curr # ASCII_SP THEN [prev |-> INITIAL_PREVIOUS_STATE]
                    ELSE [prev |-> normalized_prev(curr).ch],
          chunk |-> new_single(curr % 256)]
    ELSE LET delta == curr - self.prev
             np    == normalized_prev(curr)
             enc   == encode_delta(delta)
         IN  [coder |-> [prev |-> np.ch],
              chunk |-> [enc EXCEPT !.panic = enc.panic \/ np.panic]]

\* DeltaCoder::encode_char: [coder, chunk], the coder after the call and
\* the chunk returned
encode_char(self, curr) ==
    IF curr <= ASCII_SP
    THEN [coder |-> IF curr # ASCII_SP THEN [prev |-> INITIAL_PREVIOUS_STATE]
                    ELSE self,
          chunk |-> new_single(curr % 256)]
    ELSE LET delta == curr - self.prev
             np    == normalized_prev(curr)
             enc   == encode_delta(delta)
         IN  [coder |-> [prev |-> np.ch],
              chunk |-> [enc EXCEPT !.panic = enc.panic \/ np.panic]]

\* decode_char resetting prev on the lead byte 0xFF
decode_char_ResetOnFF(self, b) ==
    LET init == b[1]
    IN  IF init = LEAD_BYTE_RESET
        THEN [coder |-> [prev |-> INITIAL_PREVIOUS_STATE],
              res |-> <<"Ok", None, SliceFrom(b, 1)>>]
        ELSE IF init <= LEAD_BYTE_ASCII_SP
        THEN [coder |-> IF init # LEAD_BYTE_ASCII_SP
                        THEN [prev |-> INITIAL_PREVIOUS_STATE] ELSE self,
              res |-> <<"Ok", Some(init), SliceFrom(b, 1)>>]
        ELSE LET dd == decode_delta(b)
             IN  IF ~dd.ok THEN [coder |-> self, res |-> <<"Err">> \o dd.err]
                 ELSE LET candidate == self.prev + dd.delta
                          c == IF candidate >= 0 /\ IsScalar(candidate)
                               THEN Some(candidate) ELSE None
                      IN  IF c = None
                          THEN [coder |-> self,
                                res |-> <<"Err", "CharDeltaOutOfRange",
                                          self.prev, dd.delta>>]
                          ELSE [coder |-> [prev |-> normalized_prev(c[1]).ch],
                                res |-> <<"Ok", c, dd.rest>>]

\* decode_char testing the candidate against the top of the code space
\* only
decode_char_RangeCheckOnly(self, b) ==
    LET init == b[1]
    IN  IF init = LEAD_BYTE_RESET
        THEN [coder |-> self, res |-> <<"Ok", None, SliceFrom(b, 1)>>]
        ELSE IF init <= LEAD_BYTE_ASCII_SP
        THEN [coder |-> IF init # LEAD_BYTE_ASCII_SP
                        THEN [prev |-> INITIAL_PREVIOUS_STATE] ELSE self,
              res |-> <<"Ok", Some(init), SliceFrom(b, 1)>>]
        ELSE LET dd == decode_delta(b)
             IN  IF ~dd.ok THEN [coder |-> self, res |-> <<"Err">> \o dd.err]
                 ELSE LET candidate == self.prev + dd.delta
                          c == IF InRange(candidate, 0, \h10FFFF)
                               THEN Some(candidate) ELSE None
                      IN  IF c = None
                          THEN [coder |-> self,
                                res |-> <<"Err", "CharDeltaOutOfRange",
                                          self.prev, dd.delta>>]
                          ELSE [coder |-> [prev |-> normalized_prev(c[1]).ch],
                                res |-> <<"Ok", c, dd.rest>>]

\* decode_char taking U+0020 for a control: prev goes back to 0x40 on it
decode_char_SpaceResets(self, b) ==
    LET init == b[1]
    IN  IF init = LEAD_BYTE_RESET
        THEN [coder |-> self, res |-> <<"Ok", None, SliceFrom(b, 1)>>]
        ELSE IF init <= LEAD_BYTE_ASCII_SP
        THEN [coder |-> [prev |-> INITIAL_PREVIOUS_STATE],
              res |-> <<"Ok", Some(init), SliceFrom(b, 1)>>]
        ELSE LET dd == decode_delta(b)
             IN  IF ~dd.ok THEN [coder |-> self, res |-> <<"Err">> \o dd.err]
                 ELSE LET candidate == self.prev + dd.delta
                          c == IF candidate >= 0 /\ IsScalar(candidate)
                               THEN Some(candidate) ELSE None
                      IN  IF c = None
                          THEN [coder |-> self,
                                res |-> <<"Err", "CharDeltaOutOfRange",
                                          self.prev, dd.delta>>]
                          ELSE [coder |-> [prev |-> normalized_prev(c[1]).ch],
                                res |-> <<"Ok", c, dd.rest>>]

\* DeltaCoder::decode_char on a non-empty slice b:
\*   [coder, res] with res = <<"Ok", Option<char>, rest>> or <<"Err", ...>>;
\*   coder is the DeltaCoder after the call
decode_char(self, b) ==
    LET init == b[1]
    IN  IF init = LEAD_BYTE_RESET
        THEN [coder |-> self, res |-> <<"Ok", None, SliceFrom(b, 1)>>]
        ELSE IF init <= LEAD_BYTE_ASCII_SP
        THEN [coder |-> IF init # LEAD_BYTE_ASCII_SP
                        THEN [prev |-> INITIAL_PREVIOUS_STATE] ELSE self,
              res |-> <<"Ok", Some(init), SliceFrom(b, 1)>>]
        ELSE LET dd == decode_delta(b)
             IN  IF ~dd.ok THEN [coder |-> self, res |-> <<"Err">> \o dd.err]
                 ELSE LET candidate == self.prev + dd.delta
                          \* `candidate as u32` of a negative i32 is at least
                          \* 2^31, which from_u32 rejects
                          c == IF candidate >= 0 /\ IsScalar(candidate)
                               THEN Some(candidate) ELSE None
                      IN  IF c = None
                          THEN [coder |-> self,
                                res |-> <<"Err", "CharDeltaOutOfRange",
                                          self.prev, dd.delta>>]
                          ELSE [coder |-> [prev |-> normalized_prev(c[1]).ch],
                                res |-> <<"Ok", c, dd.rest>>]

-----------------------------------------------------------------------------
(* Iterators *)

\* DrainEncodedChunkIter::new, before the first call of next: no chunk is
\* being drained; ret is the latest item returned and ended whether the
\* chars under the inner EncodedChunkIter have run out
DrainEncodedChunkIter_new ==
    [drain |-> None, index |-> 0, ret |-> <<"Start">>, ended |-> FALSE]

\* DrainEncodedChunkIter::next dropping the chunk one byte early
DrainEncodedChunkIter_next_ResetsEarly(self, nx) ==
    LET got   == self.drain = None /\ nx # None
        drain == IF got THEN nx ELSE self.drain
        index == IF got THEN 0 ELSE self.index
    IN  IF drain = None
        THEN [drain |-> None, index |-> index, ret |-> <<"None">>,
              panic |-> FALSE]
        ELSE LET enc == drain[1]
             IN  IF ~(index < enc.count) \/ index >= 4
                 THEN [drain |-> drain, index |-> index, ret |-> <<"None">>,
                       panic |-> TRUE]
                 ELSE [drain |-> IF index + 1 >= enc.count - 1 THEN None
                                 ELSE drain,
                       index |-> index + 1,
                       ret   |-> <<"Some", enc.bytes[index + 1]>>,
                       panic |-> FALSE]

\* DrainEncodedChunkIter::next on self = [drain, index]; nx is what
\* self.inner.next() returns, called only when self.drain is None.
\* [drain, index, ret, panic]: the fields after the call, the item returned
\* and whether the assertion or the index into bytes failed
DrainEncodedChunkIter_next(self, nx) ==
    LET got   == self.drain = None /\ nx # None
        drain == IF got THEN nx ELSE self.drain
        index == IF got THEN 0 ELSE self.index
    IN  IF drain = None
        THEN [drain |-> None, index |-> index, ret |-> <<"None">>,
              panic |-> FALSE]
        ELSE LET enc == drain[1]
             IN  IF ~(index < enc.count) \/ index >= 4
                 THEN [drain |-> drain, index |-> index, ret |-> <<"None">>,
                       panic |-> TRUE]
                 ELSE [drain |-> IF index + 1 = enc.count THEN None
                                 ELSE drain,
                       index |-> index + 1,
                       ret   |-> <<"Some", enc.bytes[index + 1]>>,
                       panic |-> FALSE]

\* DecodeResultIter::next stepping over the byte an error was met at
RECURSIVE DecodeResultIter_next_SkipsBad(_, _)
DecodeResultIter_next_SkipsBad(st, sl) ==
    IF Len(sl) = 0 THEN [state |-> st, slice |-> sl, item |-> <<"None">>]
    ELSE LET r == decode_char(st, sl)
         IN  IF r.res[1] = "Err"
             THEN [state |-> r.coder, slice |-> Tail(sl), item |-> r.res]
             ELSE IF r.res[2] = None
             THEN DecodeResultIter_next_SkipsBad(r.coder, r.res[3])
             ELSE [state |-> r.coder, slice |-> r.res[3],
                   item |-> <<"Ok", r.res[2][1]>>]

\* DecodeResultIter::next giving up the rest of the slice at an error, as a
\* fused iterator would
RECURSIVE DecodeResultIter_next_DropsRest(_, _)
DecodeResultIter_next_DropsRest(st, sl) ==
    IF Len(sl) = 0 THEN [state |-> st, slice |-> sl, item |-> <<"None">>]
    ELSE LET r == decode_char(st, sl)
         IN  IF r.res[1] = "Err"
             THEN [state |-> r.coder, slice |-> <<>>, item |-> r.res]
             ELSE IF r.res[2] = None
             THEN DecodeResultIter_next_DropsRest(r.coder, r.res[3])
             ELSE [state |-> r.coder, slice |-> r.res[3],
                   item |-> <<"Ok", r.res[2][1]>>]

\* DecodeResultIter::next on (state, slice): [state, slice, item] with item
\* <<"None">>, <<"Ok", c>> or <<"Err", ...>>
RECURSIVE DecodeResultIter_next(_, _)
DecodeResultIter_next(st, sl) ==
    IF Len(sl) = 0 THEN [state |-> st, slice |-> sl, item |-> <<"None">>]
    ELSE LET r == decode_char(st, sl)
         IN  IF r.res[1] = "Err"
             THEN [state |-> r.coder, slice |-> sl, item |-> r.res]
             ELSE IF r.res[2] = None
             THEN DecodeResultIter_next(r.coder, r.res[3])
             ELSE [state |-> r.coder, slice |-> r.res[3],
                   item |-> <<"Ok", r.res[2][1]>>]

-----------------------------------------------------------------------------
(* Packed representation.  An unsigned scalar of w bytes is the tuple of  *)
(* its w base-256 digits, most significant first.                         *)

\* N::zero()
RECURSIVE Zero(_)
Zero(w) == IF w = 0 THEN <<>> ELSE Append(Zero(w - 1), 0)

\* bitwise or of two bytes
RECURSIVE BitOr(_, _)
BitOr(a, b) ==
    IF a = 0 THEN b
    ELSE IF b = 0 THEN a
    ELSE (IF a % 2 = 1 \/ b % 2 = 1 THEN 1 ELSE 0) + 2 * BitOr(a \div 2, b \div 2)

\* `tmp <<= 8` at a type of w bytes.  At u8 the shift amount equals the bit
\* width: with overflow checks the operation panics, without them the
\* amount is masked to 0 and tmp is left as it is.
Shl8(tmp, w, checks) ==
    IF w = 1 THEN (IF checks THEN <<"Panic">> ELSE <<"Some", tmp>>)
    ELSE <<"Some", Tail(tmp) \o <<0>>>>

\* `tmp |= N::from(c)`
OrByte(tmp, c) == [tmp EXCEPT ![Len(tmp)] = BitOr(tmp[Len(tmp)], c)]

\* the loop `while n != 0` of pack
RECURSIVE PadLoop(_, _, _, _)
PadLoop(tmp, n, w, checks) ==
    IF n = 0 THEN <<"Some", tmp>>
    ELSE LET sh == Shl8(tmp, w, checks)
         IN  IF sh[1] = "Panic" THEN sh
             ELSE PadLoop(sh[2], n - 1, w, checks)

\* the loop `for c in i.encode_bocu1()` of pack, then the padding loop
RECURSIVE PackLoop(_, _, _, _, _)
PackLoop(bytes, tmp, n, w, checks) ==
    IF Len(bytes) = 0 THEN PadLoop(tmp, n, w, checks)
    ELSE IF n = 0 THEN <<"None">>
    ELSE LET sh == Shl8(tmp, w, checks)
         IN  IF sh[1] = "Panic" THEN sh
             ELSE PackLoop(Tail(bytes), OrByte(sh[2], Head(bytes)), n - 1, w, checks)

\* pack without its padding loop: the bytes stay at the low end
RECURSIVE PackLoop_NoPad(_, _, _, _, _)
PackLoop_NoPad(bytes, tmp, n, w, checks) ==
    IF Len(bytes) = 0 THEN <<"Some", tmp>>
    ELSE IF n = 0 THEN <<"None">>
    ELSE LET sh == Shl8(tmp, w, checks)
         IN  IF sh[1] = "Panic" THEN sh
             ELSE PackLoop_NoPad(Tail(bytes), OrByte(sh[2], Head(bytes)), n - 1,
                                 w, checks)

pack_NoPad(bytes, w, checks) == PackLoop_NoPad(bytes, Zero(w), w, w, checks)

\* pack::<N> with size_of::<N>() = w on the encoded bytes of the input:
\* <<"Some", scalar>>, <<"None">>, or <<"Panic">>
pack(bytes, w, checks) == PackLoop(bytes, Zero(w), w, w, checks)

\* `n >>= 8` at a type of w bytes; at u8 the shift overflows as `<<= 8`
\* does
Shr8(n, w, checks) ==
    IF w = 1 THEN (IF checks THEN <<"Panic">> ELSE <<"Some", n>>)
    ELSE <<"Some", <<0>> \o SubSeq(n, 1, Len(n) - 1)>>

\* the loop of DecodePackedResultIter::new with its bytes laid down in the
\* order they are met, least significant first
RECURSIVE UnpackLoop_Forward(_, _, _, _, _)
UnpackLoop_Forward(n, k, acc, w, checks) ==
    IF k = 0 THEN <<"Some", acc>>
    ELSE LET byte == n[Len(n)]
             sh   == Shr8(n, w, checks)
         IN  IF sh[1] = "Panic" THEN sh
             ELSE UnpackLoop_Forward(sh[2], k - 1,
                      IF byte # 0 THEN acc \o <<byte>> ELSE acc, w, checks)

DecodePackedResultIter_new_Forward(n, w, checks) ==
    UnpackLoop_Forward(n, w, <<>>, w, checks)

\* the loop `for _ in 0..size_of::<N>()` of DecodePackedResultIter::new, k
\* turns left, on acc = buf[range(rem)]: a non-zero byte goes in front of
\* the bytes met so far
RECURSIVE UnpackLoop(_, _, _, _, _)
UnpackLoop(n, k, acc, w, checks) ==
    IF k = 0 THEN <<"Some", acc>>
    ELSE LET byte == n[Len(n)]
             sh   == Shr8(n, w, checks)
         IN  IF sh[1] = "Panic" THEN sh
             ELSE UnpackLoop(sh[2], k - 1,
                      IF byte # 0 THEN <<byte>> \o acc ELSE acc, w, checks)

\* DecodePackedResultIter::new on a scalar of w bytes: <<"Some", bytes>>
\* with bytes = buf[range(rem)], or <<"Panic">>
DecodePackedResultIter_new(n, w, checks) == UnpackLoop(n, w, <<>>, w, checks)

\* DecodePackedResultIter::next on (state, buf[range(rem)]): [state, slice,
\* item] with item <<"None">>, <<"Ok", c>> or <<"Err", ...>>
RECURSIVE DecodePackedResultIter_next(_, _)
DecodePackedResultIter_next(st, sl) ==
    IF Len(sl) = 0 THEN [state |-> st, slice |-> sl, item |-> <<"None">>]
    ELSE LET r == decode_char(st, sl)
         IN  IF r.res[1] = "Err"
             THEN [state |-> r.coder, slice |-> sl, item |-> r.res]
             ELSE IF r.res[2] = None
             THEN DecodePackedResultIter_next(r.coder, r.res[3])
             ELSE [state |-> r.coder, slice |-> r.res[3],
                   item |-> <<"Ok", r.res[2][1]>>]

\* Ord::cmp of two sequences of integers (Vec<u8>, [char]): -1, 0 or 1
RECURSIVE SeqCmp(_, _)
SeqCmp(a, b) ==
    IF Len(a) = 0 THEN (IF Len(b) = 0 THEN 0 ELSE -1)
    ELSE IF Len(b) = 0 THEN 1
    ELSE IF Head(a) < Head(b) THEN -1
    ELSE IF Head(a) > Head(b) THEN 1
    ELSE SeqCmp(Tail(a), Tail(b))

\* Ord::cmp of two unsigned scalars of the same type: the most significant
\* digit that differs decides
RECURSIVE ScalarCmp(_, _)
ScalarCmp(a, b) ==
    IF Len(a) = 0 THEN 0
    ELSE IF Head(a) # Head(b) THEN (IF Head(a) < Head(b) THEN -1 ELSE 1)
    ELSE ScalarCmp(Tail(a), Tail(b))

-----------------------------------------------------------------------------
(* The IBM reference encoder behind encodeBocu1.  Its C source is not     *)
(* part of the Rust sources; it is taken from the format's description:   *)
(* the trail table, the lead-byte table and the encode step.              *)

\* trail value to byte, by the table of the four spans
RefTrailToByte(t) ==
    IF t <= \h05 THEN t + 1
    ELSE IF t <= \h0F THEN t + 10
    ELSE IF t <= \h13 THEN t + 12
    ELSE t + 13

\* rows <<delta lo, delta hi, first lead, last lead, length, offset>>
RefTable ==
    << <<-\h10FF9F, -\h2DD0D, \h21, \h21, 4, -\h2DD0C>>,
       <<-\h2DD0C,  -\h2912,  \h22, \h24, 3, -\h2911>>,
       <<-\h2911,   -\h41,    \h25, \h4F, 2, -\h40>>,
       <<-\h40,     \h3F,     \h50, \hCF, 1, 0>>,
       <<\h40,      \h2910,   \hD0, \hFA, 2, \h40>>,
       <<\h2911,    \h2DD0B,  \hFB, \hFD, 3, \h2911>>,
       <<\h2DD0C,   \h10FFBF, \hFE, \hFE, 4, \h2DD0C>> >>

\* the row of a delta
RefRow(delta) ==
    RefTable[CHOOSE i \in 1..Len(RefTable) :
                 RefTable[i][1] <= delta /\ delta <= RefTable[i][2]]

\* the lead byte of delta = offset: the middle 0x90 of the one-byte row, the
\* first lead of a row of positive deltas, one past the last lead of a row
\* of negative deltas
RefLeadBase(row) ==
    IF row[5] = 1 THEN \h90
    ELSE IF row[6] = row[1] THEN row[3]
    ELSE row[4] + 1

\* the bytes of a delta: trail digits of d = delta - offset from the last
\* position to the second, then the lead byte
RECURSIVE RefDigits(_, _, _)
RefDigits(d, n, base) ==
    IF n = 0 THEN <<base + d>>
    ELSE RefDigits((d - (d % 243)) \div 243, n - 1, base)
             \o <<RefTrailToByte(d % 243)>>

RefEncodeDelta(delta) ==
    LET row == RefRow(delta)
    IN  RefDigits(delta - row[6], row[5] - 1, RefLeadBase(row))

\* the attractor of a code point
RefNormalize(c) ==
    IF \h3040 <= c /\ c <= \h309F THEN \h3070
    ELSE IF \h4E00 <= c /\ c <= \h9FA5 THEN \h7711
    ELSE IF \hAC00 <= c /\ c <= \hD7A3 THEN \hC1D1
    ELSE (c \div 128) * 128 + 64

\* the int32_t result of encodeBocu1: a chunk of fewer than four bytes has
\* its length in the high byte and its bytes in the low ones, a chunk of
\* four bytes fills the word, first byte highest
RECURSIVE RefWord(_, _)
RefWord(bytes, acc) ==
    IF Len(bytes) = 0 THEN acc ELSE RefWord(Tail(bytes), acc * 256 + Head(bytes))

RefPacked(bytes) ==
    IF Len(bytes) < 4 THEN Len(bytes) * 16777216 + RefWord(bytes, 0)
    ELSE (IF bytes[1] >= 128 THEN bytes[1] - 256 ELSE bytes[1]) * 16777216
             + RefWord(Tail(bytes), 0)

\* encodeBocu1(pPrev, c): [prev, packed], *pPrev after the call and the
\* returned word
encodeBocu1(prev, c) ==
    IF c < \h20 THEN [prev |-> \h40, packed |-> RefPacked(<<c>>)]
    ELSE IF c = \h20 THEN [prev |-> prev, packed |-> RefPacked(<<c>>)]
    ELSE [prev |-> RefNormalize(c), packed |-> RefPacked(RefEncodeDelta(c - prev))]

\* packed_to_chunk with the arm of count 3 copied from the arm of count 2
packed_to_chunk_Arm3(word) ==
    LET a == (word \div 16777216) % 256
        b == (word \div 65536) % 256
        c == (word \div 256) % 256
        d == word % 256
        count == IF a > 0 /\ a < 4 THEN a ELSE 4
    IN  [bytes |-> IF count = 1 THEN <<d, 0, 0, 0>>
                   ELSE IF count = 2 THEN <<c, d, 0, 0>>
                   ELSE IF count = 3 THEN <<c, d, 0, 0>>
                   ELSE <<a, b, c, d>>,
         count |-> count,
         panic |-> FALSE]

\* packed_to_chunk of bocu1_refimpl; `>>` on i32 is an arithmetic shift
packed_to_chunk(word) ==
    LET a == (word \div 16777216) % 256
        b == (word \div 65536) % 256
        c == (word \div 256) % 256
        d == word % 256
        count == IF a > 0 /\ a < 4 THEN a ELSE 4
    IN  [bytes |-> IF count = 1 THEN <<d, 0, 0, 0>>
                   ELSE IF count = 2 THEN <<c, d, 0, 0>>
                   ELSE IF count = 3 THEN <<b, c, d, 0>>
                   ELSE <<a, b, c, d>>,
         count |-> count,
         panic |-> FALSE]

-----------------------------------------------------------------------------
(* State machine *)

\* RefImplEncodedChunkIter::new: prev, and the model's position in the input
\* and the bytes drained so far
RefImplEncodedChunkIter_new == [prev |-> \h40, pos |-> 0, out |-> <<>>]

Init ==
    /\ input = <<>>
    /\ coder = DeltaCoder_new
    /\ chunks = <<>>
    /\ wire = <<>>
    /\ marks = <<>>
    /\ phase = "encode"
    /\ slice = <<>>
    /\ state = DeltaCoder_new
    /\ decoded = <<>>
    /\ last = <<"Start">>
    /\ ref = RefImplEncodedChunkIter_new
    /\ input2 = <<>>
    /\ coder2 = DeltaCoder_new
    /\ wire2 = <<>>
    /\ packed = <<>>
    /\ probe = <<>>
    /\ drainer = DrainEncodedChunkIter_new

\* the marks of one chunk's bytes
ChunkMarks(count) == SubSeq(<<"lead", "trail", "trail", "trail">>, 1, count)

\* EncodedChunkIter::next drained by DrainEncodedChunkIter (or one turn of
\* the loop of write_encoded_chars): the next char c of a string of at most
\* max chars is encoded and its chunk's bytes are appended to the stream
EncodeChar(c, max) ==
    /\ phase = "encode"
    /\ Len(input) < max
    /\ LET r == encode_char(coder, c)
       IN  /\ input' = Append(input, c)
           /\ coder' = r.coder
           /\ chunks' = Append(chunks, r.chunk)
           /\ wire' = wire \o as_slice(r.chunk)
           /\ marks' = marks \o ChunkMarks(r.chunk.count)
           /\ phase' = IF r.chunk.panic THEN "panic" ELSE "encode"
    /\ UNCHANGED <<slice, state, decoded, last, ref, input2, coder2, wire2, packed, probe, drainer>>

\* number of injected reset bytes in the stream
Injected == Cardinality({i \in 1..Len(marks) : marks[i] \in {"reset", "midreset"}})

\* The producer injects a reset byte 0xFF before position p of the stream
\* (p = Len + 1: at its end).  The mark records whether it went between the
\* bytes of one chunk.
InjectReset(p) ==
    /\ phase \in {"encode", "wire"}
    /\ Injected < MaxInject
    /\ p \in 1..(Len(wire) + 1)
    /\ LET mid == p <= Len(wire) /\ marks[p] \in {"trail", "midreset"}
       IN  /\ wire' = SubSeq(wire, 1, p - 1) \o <<LEAD_BYTE_RESET>>
                        \o SubSeq(wire, p, Len(wire))
           /\ marks' = SubSeq(marks, 1, p - 1)
                        \o <<IF mid THEN "midreset" ELSE "reset">>
                        \o SubSeq(marks, p, Len(marks))
    /\ phase' = "wire"
    /\ UNCHANGED <<input, coder, chunks, slice, state, decoded, last, ref,
                   input2, coder2, wire2, packed, probe, drainer>>

\* A caller takes the stream and a fresh DeltaCoder to call decode_char itself
NewDecoder ==
    /\ phase \in {"encode", "wire"}
    /\ phase' = "char"
    /\ slice' = wire
    /\ state' = DeltaCoder_new
    /\ decoded' = <<>>
    /\ last' = <<"Start">>
    /\ UNCHANGED <<input, coder, chunks, wire, marks, ref, input2, coder2, wire2, packed, probe, drainer>>

\* One call of DeltaCoder::decode_char on the rest of the stream
DecodeChar ==
    /\ phase = "char"
    /\ Len(slice) > 0
    /\ LET r == decode_char(state, slice)
       IN  /\ state' = r.coder
           /\ last' = r.res
           /\ IF r.res[1] = "Ok"
              THEN /\ slice' = r.res[3]
                   /\ decoded' = IF r.res[2] = None THEN decoded
                                 ELSE Append(decoded, r.res[2][1])
              ELSE UNCHANGED <<slice, decoded>>
    /\ UNCHANGED <<input, coder, chunks, wire, marks, phase, ref, input2, coder2,
                   wire2, packed, probe, drainer>>

\* DecodeIter::new (decode_bocu1) on the stream
NewDecodeIter ==
    /\ phase \in {"encode", "wire"}
    /\ phase' = "iter"
    /\ slice' = wire
    /\ state' = DeltaCoder_new
    /\ decoded' = <<>>
    /\ last' = <<"Start">>
    /\ UNCHANGED <<input, coder, chunks, wire, marks, ref, input2, coder2, wire2, packed, probe, drainer>>

\* DecodeIter::next: the inner DecodeResultIter::next, whose errors become
\* None.  last keeps the inner item.
DecodeIterNext ==
    /\ phase = "iter"
    /\ \E r \in {DecodeResultIter_next(state, slice)} :
           /\ state' = r.state
           /\ slice' = r.slice
           /\ last' = r.item
           /\ decoded' = IF r.item[1] = "Ok" THEN Append(decoded, r.item[2])
                         ELSE decoded
    /\ UNCHANGED <<input, coder, chunks, wire, marks, phase, ref, input2, coder2,
                   wire2, packed, probe, drainer>>

\* RefImplEncodedChunkIter::next drained by DrainEncodedChunkIter: the next
\* char of the input goes through encodeBocu1 and packed_to_chunk
RefEncodeChar ==
    /\ phase = "encode"
    /\ ref.pos < Len(input)
    /\ LET r == encodeBocu1(ref.prev, input[ref.pos + 1])
       IN  ref' = [prev |-> r.prev, pos |-> ref.pos + 1,
                   out |-> ref.out \o as_slice(packed_to_chunk(r.packed))]
    /\ UNCHANGED <<input, coder, chunks, wire, marks, phase, slice, state, decoded,
                   last, input2, coder2, wire2, packed, probe, drainer>>

\* The second string of a comparison is encoded by its own encoder
EncodeChar2(c, max) ==
    /\ phase = "encode"
    /\ Len(input2) < max
    /\ LET r == encode_char(coder2, c)
       IN  /\ input2' = Append(input2, c)
           /\ coder2' = r.coder
           /\ wire2' = wire2 \o as_slice(r.chunk)
           /\ phase' = IF r.chunk.panic THEN "panic" ELSE "encode"
    /\ UNCHANGED <<input, coder, chunks, wire, marks, slice, state, decoded, last,
                   ref, packed, probe, drainer>>

\* pack::<N> of both strings at the scalar type of w bytes, in a build with
\* or without overflow checks
Pack(w, checks) ==
    /\ phase = "encode"
    /\ phase' = "packed"
    /\ packed' = [w |-> w, p1 |-> pack(wire, w, checks), p2 |-> pack(wire2, w, checks)]
    /\ UNCHANGED <<input, coder, chunks, wire, marks, slice, state, decoded, last,
                   ref, input2, coder2, wire2, probe, drainer>>

Next ==
    \/ \E c \in Chars : EncodeChar(c, MaxLen)
    \/ \E p \in 1..(4 * MaxLen + MaxInject) : InjectReset(p)
    \/ NewDecoder
    \/ DecodeChar
    \/ NewDecodeIter
    \/ DecodeIterNext

Spec == Init /\ [][Next]_vars

\* the encoder beside the reference encoder (check_conforming)
NextEnc ==
    \/ \E c \in WideChars : EncodeChar(c, MaxEncLen)
    \/ RefEncodeChar

SpecEnc == Init /\ [][NextEnc]_vars

\* two strings encoded and packed for comparison (check_two)
NextPair ==
    \/ \E c \in PairChars : EncodeChar(c, MaxPairLen)
    \/ \E c \in PairChars : EncodeChar2(c, MaxPairLen)
    \/ \E w \in Widths, checks \in BOOLEAN : Pack(w, checks)

SpecPair == Init /\ [][NextPair]_vars

\* the codec's state, left alone while one of its functions is called alone
codecVars == <<input, coder, chunks, wire, marks, phase, slice, state, decoded,
               last, ref, input2, coder2, wire2, packed, drainer>>

\* deltas given to encode_delta: both ends of every range of its match and
\* their neighbours, the deltas around zero, the first wrap of a trail digit
\* in each multi-byte range, and deltas inside the ranges
Deltas ==
    {-\h10FF9F, -\h10FF9E, -\h10000, -\h2DD0E, -\h2DD0D, -\h2DD0C, -\h2DD0B,
     -\h10FBA, -\h2A04, -\h2913, -\h2912, -\h2911, -\h2910, -\h1000, -\h134, -\h133,
     -\h80, -\h42, -\h41, -\h40, -\h3F, -1, 0, 1, \h3E, \h3F, \h40, \h41,
     \h7F, \h132, \h133, \h1000, \h290F, \h2910, \h2911, \h2912, \h2A03,
     \h2A04, \h2DD0A, \h2DD0B, \h2DD0C, \h2DD0D, \h10000, \h10FFBE, \h10FFBF}

\* every u8
Bytes == 0..255

\* first code points of a pair of Unihan code points: both ends of the
\* block and its attractor
HanFirst == {\h4E00, \h7711, \h9FA5}

\* the arguments of one call: two deltas for encode_delta, two trail values
\* for trail_to_byte, one byte for byte_to_trail, two code points of the
\* Unihan block for two calls of encode_char
InitCode ==
    /\ input = <<>> /\ coder = DeltaCoder_new /\ chunks = <<>>
    /\ wire = <<>> /\ marks = <<>> /\ phase = "call"
    /\ slice = <<>> /\ state = DeltaCoder_new /\ decoded = <<>>
    /\ last = <<"Start">> /\ ref = RefImplEncodedChunkIter_new
    /\ input2 = <<>> /\ coder2 = DeltaCoder_new /\ wire2 = <<>>
    /\ packed = <<>>
    /\ drainer = DrainEncodedChunkIter_new
    /\ \/ \E x \in Deltas, y \in Deltas :
              probe = [fn |-> "encode_delta", d1 |-> x, d2 |-> y]
       \/ \E x \in 0..(N_TRAIL_VALUES - 1), y \in 0..(N_TRAIL_VALUES - 1) :
              probe = [fn |-> "trail_to_byte", t1 |-> x, t2 |-> y]
       \/ \E x \in Bytes :
              probe = [fn |-> "byte_to_trail", b |-> x]
       \/ \E x \in HanFirst, y \in \h4E00..\h9FA5 :
              probe = [fn |-> "encode_char", c0 |-> x, c |-> y]

\* encode_delta on each of the two deltas
EncodeDelta ==
    /\ probe.fn = "encode_delta"
    /\ probe' = [fn |-> "encoded", d1 |-> probe.d1, d2 |-> probe.d2,
                 e1 |-> encode_delta(probe.d1), e2 |-> encode_delta(probe.d2)]
    /\ UNCHANGED codecVars

\* decode_delta on the chunk of the first delta
DecodeDelta ==
    /\ probe.fn = "encoded"
    /\ ~probe.e1.panic
    /\ probe' = [fn |-> "decoded", d1 |-> probe.d1, d2 |-> probe.d2,
                 e1 |-> probe.e1, e2 |-> probe.e2,
                 r1 |-> decode_delta(as_slice(probe.e1))]
    /\ UNCHANGED codecVars

\* trail_to_byte on each of the two trail values
TrailToByte ==
    /\ probe.fn = "trail_to_byte"
    /\ probe' = [fn |-> "trail byte", t1 |-> probe.t1, t2 |-> probe.t2,
                 b1 |-> trail_to_byte(probe.t1), b2 |-> trail_to_byte(probe.t2)]
    /\ UNCHANGED codecVars

\* byte_to_trail on the byte trail_to_byte gave for the first trail value
TrailByteToTrail ==
    /\ probe.fn = "trail byte"
    /\ ~probe.b1.panic
    /\ probe' = [fn |-> "trail again", t1 |-> probe.t1, t2 |-> probe.t2,
                 b1 |-> probe.b1, b2 |-> probe.b2,
                 r1 |-> byte_to_trail(probe.b1.v)]
    /\ UNCHANGED codecVars

\* byte_to_trail on a byte
ByteToTrail ==
    /\ probe.fn = "byte_to_trail"
    /\ probe' = [fn |-> "trail", b |-> probe.b, r |-> byte_to_trail(probe.b)]
    /\ UNCHANGED codecVars

\* encode_char of a fresh coder on the first code point, then on the
\* second: prev between the calls and the chunk of the second
EncodeCharPair ==
    /\ probe.fn = "encode_char"
    /\ LET r0 == encode_char(DeltaCoder_new, probe.c0)
           r  == encode_char(r0.coder, probe.c)
       IN  probe' = [fn |-> "chunk", c0 |-> probe.c0, c |-> probe.c,
                     prev |-> r0.coder.prev, e |-> r.chunk]
    /\ UNCHANGED codecVars

\* the functions of the variable-length code and of the trailing-byte
\* selection, each called alone
NextCode ==
    \/ EncodeDelta
    \/ DecodeDelta
    \/ TrailToByte
    \/ TrailByteToTrail
    \/ ByteToTrail
    \/ EncodeCharPair

SpecCode == InitCode /\ [][NextCode]_vars

\* bytes put in place of a byte of a chunk
BadBytes == {\h00, \h0F, \h20, \hFF}

\* bytes before a chunk: none, a space, a control, a reset byte
Prefixes == {<<>>, <<\h20>>, <<\h0A>>, <<\hFF>>}

\* values of prev a decoder holds: the initial one and the attractors of
\* the kana block, of the last block below the surrogates, of the first
\* block above them and of the last block of the code space
DecoderPrevs == {\h40, \h3070, \hD7C0, \hE040, \h10FFC0}

\* the first n bytes of a chunk, byte j (from 0) replaced by x when there
\* is one
Mangle(bytes, n, j, x) ==
    LET cut == SubSeq(bytes, 1, IF n < Len(bytes) THEN n ELSE Len(bytes))
    IN  IF j >= 1 /\ j < Len(cut)
        THEN SubSeq(cut, 1, j) \o <<x>> \o SubSeq(cut, j + 2, Len(cut))
        ELSE cut

\* byte slices given to a decoder: chunks of encode_delta, whole or cut
\* short, with or without a replaced byte, after a prefix
Slices ==
    {pre \o Mangle(as_slice(encode_delta(d)), n, j, x) :
        pre \in Prefixes, d \in Deltas, n \in 1..4, j \in 0..3, x \in BadBytes}

\* a decoder in one of its states is given a slice of bytes from anywhere
InitDec ==
    /\ input = <<>> /\ coder = DeltaCoder_new /\ chunks = <<>>
    /\ marks = <<>> /\ phase = "char"
    /\ slice \in Slices
    /\ wire = slice
    /\ \E p \in DecoderPrevs : state = [prev |-> p]
    /\ decoded = <<>>
    /\ last = <<"Start">> /\ ref = RefImplEncodedChunkIter_new
    /\ input2 = <<>> /\ coder2 = DeltaCoder_new /\ wire2 = <<>>
    /\ packed = <<>> /\ probe = <<>>
    /\ drainer = DrainEncodedChunkIter_new

\* decode_char called until the slice is empty or an error stops it
NextDec == DecodeChar

SpecDec == InitDec /\ [][NextDec]_vars

\* longest input string of SpecPack
MaxPackLen == 3

\* code points of the strings packed in SpecPack
PackChars == {\h00, \h0A, \h20, \h41, \h172, \h3042, \h10FFFF}

\* pack::<N> of the string at the scalar type of w bytes, in a build with
\* or without overflow checks
PackOne(w, checks) ==
    /\ phase = "encode"
    /\ phase' = "packed"
    /\ packed' = [w |-> w, checks |-> checks, p1 |-> pack(wire, w, checks)]
    /\ UNCHANGED <<input, coder, chunks, wire, marks, slice, state, decoded, last,
                   ref, input2, coder2, wire2, probe, drainer>>

\* decode_packed_bocu1 on the scalar pack returned: DecodePackedIter::new
Unpack ==
    /\ phase = "packed"
    /\ packed.p1[1] = "Some"
    /\ \E r \in {DecodePackedResultIter_new(packed.p1[2], packed.w,
                                             packed.checks)} :
           IF r[1] = "Panic"
           THEN phase' = "panic" /\ UNCHANGED <<slice, state>>
           ELSE /\ phase' = "unpack"
                /\ slice' = r[2]
                /\ state' = DeltaCoder_new
    /\ decoded' = <<>>
    /\ last' = <<"Start">>
    /\ UNCHANGED <<input, coder, chunks, wire, marks, ref, input2, coder2, wire2,
                   packed, probe, drainer>>

\* DecodePackedIter::next: the inner DecodePackedResultIter::next, whose
\* errors become None.  last keeps the inner item.
UnpackNext ==
    /\ phase = "unpack"
    /\ \E r \in {DecodePackedResultIter_next(state, slice)} :
           /\ state' = r.state
           /\ slice' = r.slice
           /\ last' = r.item
           /\ decoded' = IF r.item[1] = "Ok" THEN Append(decoded, r.item[2])
                         ELSE decoded
    /\ UNCHANGED <<input, coder, chunks, wire, marks, phase, ref, input2, coder2,
                   wire2, packed, probe, drainer>>

\* a string packed into a scalar and unpacked again
NextPack ==
    \/ \E c \in PackChars : EncodeChar(c, MaxPackLen)
    \/ \E w \in Widths, checks \in BOOLEAN : PackOne(w, checks)
    \/ Unpack
    \/ UnpackNext

SpecPack == Init /\ [][NextPack]_vars

\* chunks before the chunk a slice is built around: none, a space, a reset
\* byte, U+0172 and U+3042 from a fresh coder
IterPrefixes == {<<>>, <<\h20>>, <<\hFF>>, <<\hD0, \hFF>>, <<\hFB, \h11, \h59>>}

\* bytes after it: none, or a one-byte chunk
IterSuffixes == {<<>>, <<\h91>>}

\* byte slices given to decode_bocu1 and to DecodeResultIter::new
IterSlices ==
    {pre \o Mangle(as_slice(encode_delta(d)), n, j, x) \o suf :
        pre \in IterPrefixes, suf \in IterSuffixes,
        d \in Deltas, n \in 1..4, j \in 0..3, x \in BadBytes}

\* bytes of the scalars given to decode_packed_bocu1
ScalarBytes == {\h00, \h20, \h91, \hD0, \hFF}

\* the scalars of w bytes over these
Scalars(w) ==
    IF w = 1 THEN {<<a>> : a \in ScalarBytes}
    ELSE IF w = 2 THEN {<<a, b>> : a \in ScalarBytes, b \in ScalarBytes}
    ELSE {<<a, b, c, d>> : a \in ScalarBytes, b \in ScalarBytes,
                           c \in ScalarBytes, d \in ScalarBytes}

\* a byte slice from anywhere, about to be given to decode_bocu1 or to
\* DecodeResultIter::new, or a scalar of w bytes from anywhere, about to be
\* given to decode_packed_bocu1 in a build with or without overflow checks
InitIter ==
    /\ input = <<>> /\ coder = DeltaCoder_new /\ chunks = <<>>
    /\ marks = <<>>
    /\ slice = <<>> /\ state = DeltaCoder_new /\ decoded = <<>>
    /\ last = <<"Start">> /\ ref = RefImplEncodedChunkIter_new
    /\ input2 = <<>> /\ coder2 = DeltaCoder_new /\ wire2 = <<>>
    /\ probe = <<>>
    /\ drainer = DrainEncodedChunkIter_new
    /\ \/ /\ phase = "start"
          /\ wire \in IterSlices
          /\ packed = <<>>
       \/ /\ phase = "packed"
          /\ wire = <<>>
          /\ \E w \in {1, 2, 4}, checks \in BOOLEAN : \E n \in Scalars(w) :
                 packed = [w |-> w, checks |-> checks, p1 |-> <<"Some", n>>]

\* DecodeIter::new (decode_bocu1) on the byte slice
DecodeIterNew ==
    /\ phase = "start"
    /\ phase' = "iter"
    /\ slice' = wire
    /\ state' = DeltaCoder_new
    /\ UNCHANGED <<input, coder, chunks, wire, marks, decoded, last, ref, input2,
                   coder2, wire2, packed, probe, drainer>>

\* DecodeResultIter::new on the byte slice
DecodeResultIterNew ==
    /\ phase = "start"
    /\ phase' = "result"
    /\ slice' = wire
    /\ state' = DeltaCoder_new
    /\ UNCHANGED <<input, coder, chunks, wire, marks, decoded, last, ref, input2,
                   coder2, wire2, packed, probe, drainer>>

\* DecodeResultIter::next called by the user of the result iterator
DecodeResultIterNext ==
    /\ phase = "result"
    /\ \E r \in {DecodeResultIter_next(state, slice)} :
           /\ state' = r.state
           /\ slice' = r.slice
           /\ last' = r.item
           /\ decoded' = IF r.item[1] = "Ok" THEN Append(decoded, r.item[2])
                         ELSE decoded
    /\ UNCHANGED <<input, coder, chunks, wire, marks, phase, ref, input2, coder2,
                   wire2, packed, probe, drainer>>

\* the decoding iterators on bytes and scalars from anywhere
NextIter ==
    \/ DecodeIterNew
    \/ DecodeResultIterNew
    \/ DecodeIterNext
    \/ DecodeResultIterNext
    \/ Unpack
    \/ UnpackNext

SpecIter == InitIter /\ [][NextIter]_vars

\* longest input string of SpecPrev
MaxPrevLen == 3

\* code points fed to the encoder in SpecPrev: the values prev takes (the
\* initial one, block middles, the three attractors) and code points that
\* lead to them
PrevChars == {\h0A, \h20, \h21, \h40, \h41, \h140, \h172, \h3042, \h3070, \h4E00,
              \h7711, \h9FA5, \hAC00, \hC1D1, \hD7FF, \hE000, \h10FFC0, \h10FFFF}

\* the encoder on strings that come back to the values of prev
NextPrev == \E c \in PrevChars : EncodeChar(c, MaxPrevLen)

SpecPrev == Init /\ [][NextPrev]_vars

\* One call of DrainEncodedChunkIter::next over an EncodedChunkIter over the
\* chars of a string of at most max chars.  ch is what the chars give when
\* the inner iterator is asked: None at the end of the string and ever
\* after, or the next char, which goes through encode_char.  The byte
\* returned is appended to the stream.
DrainNext(ch, max) ==
    /\ phase = "encode"
    /\ LET asks == drainer.drain = None
           r    == encode_char(coder, ch[1])
           nx   == IF ch = None THEN None ELSE Some(r.chunk)
           d    == DrainEncodedChunkIter_next(drainer, nx)
       IN  /\ ch # None => (asks /\ ~drainer.ended /\ Len(input) < max)
           /\ IF asks /\ ch # None
              THEN /\ input' = Append(input, ch[1])
                   /\ coder' = r.coder
                   /\ chunks' = Append(chunks, r.chunk)
              ELSE UNCHANGED <<input, coder, chunks>>
           /\ drainer' = [drain |-> d.drain, index |-> d.index, ret |-> d.ret,
                          ended |-> drainer.ended \/ (asks /\ ch = None)]
           /\ IF d.ret[1] = "Some"
              THEN /\ wire' = Append(wire, d.ret[2])
                   /\ marks' = Append(marks, IF d.index = 1 THEN "lead"
                                             ELSE "trail")
              ELSE UNCHANGED <<wire, marks>>
           /\ phase' = IF d.panic \/ (asks /\ ch # None /\ r.chunk.panic)
                       THEN "panic" ELSE "encode"
    /\ UNCHANGED <<slice, state, decoded, last, ref, input2, coder2, wire2,
                   packed, probe>>

\* longest input string of SpecDrain
MaxDrainLen == 3

\* the encoded bytes of a string pulled one at a time
NextDrain ==
    \/ \E c \in Chars : DrainNext(Some(c), MaxDrainLen)
    \/ DrainNext(None, MaxDrainLen)

SpecDrain == Init /\ [][NextDrain]_vars

-----------------------------------------------------------------------------
(* Properties *)

\* the decoder has stopped: the iterator returned None, at the end of the
\* slice or on an error
Finished == phase = "iter" /\ last[1] \in {"None", "Err"}

\* the chunks have bytes in several positions
HasLongChunk == \E k \in 1..Len(chunks) : chunks[k].count >= 3

\* C1: round trip.  With nothing injected, decode_bocu1 on the encoded bytes
\* of the input yields a prefix of the input at every step and, once it has
\* stopped, exactly the input, having met no error.
C1_RoundTrip ==
    (phase = "iter" /\ Injected = 0)
        => /\ Len(decoded) <= Len(input)
           /\ decoded = SubSeq(input, 1, Len(decoded))
           /\ last[1] # "Err"
           /\ Finished => decoded = input

C1_Witness ==
    /\ Finished /\ Injected = 0
    /\ Len(input) >= 2 /\ HasLongChunk
    /\ decoded = input

\* C2: lexicographic byte order.  The encoded bytes of two strings compare
\* as the strings compare by code point.
C2_LexOrder ==
    phase # "panic" => SeqCmp(wire, wire2) = SeqCmp(input, input2)

C2_Witness ==
    /\ Len(input) = 2 /\ Len(input2) = 2
    /\ input[1] = input2[1] /\ input[1] > \h20
    /\ SeqCmp(input, input2) = 1
    /\ Len(wire) > Len(wire2)

\* no U+0000 in a string
NoNul(s) == \A k \in 1..Len(s) : s[k] # 0

\* C3: packed lexicographic order.  When neither string holds U+0000 and
\* pack returns a scalar for both, the scalars compare as the strings do.
C3_PackedLexOrder ==
    (/\ phase = "packed"
     /\ NoNul(input) /\ NoNul(input2)
     /\ packed.p1[1] = "Some" /\ packed.p2[1] = "Some")
        => ScalarCmp(packed.p1[2], packed.p2[2]) = SeqCmp(input, input2)

C3_Witness ==
    /\ phase = "packed" /\ packed.w = 4
    /\ NoNul(input) /\ NoNul(input2)
    /\ packed.p1[1] = "Some" /\ packed.p2[1] = "Some"
    /\ Len(wire) = 3 /\ Len(wire2) = 2
    /\ SeqCmp(input, input2) = -1

\* C4: forbidden bytes.  One of the 13 excluded bytes stands in a chunk only
\* as the whole chunk of the input code point of that value; the stream
\* holds 0x20 iff the input holds U+0020.
C4_ForbiddenBytes ==
    /\ \A k \in 1..Len(chunks) : \A j \in 1..chunks[k].count :
           chunks[k].bytes[j] \in EXCLUDED_CODE_BYTES
               => (j = 1 /\ chunks[k].count = 1 /\ input[k] = chunks[k].bytes[j])
    /\ \A i \in 1..Len(wire) :
           wire[i] \in EXCLUDED_CODE_BYTES
               => (marks[i] = "lead" /\ \E k \in 1..Len(input) : input[k] = wire[i])
    /\ (\E i \in 1..Len(wire) : wire[i] = \h20)
           <=> (\E k \in 1..Len(input) : input[k] = \h20)

C4_Witness ==
    /\ \E k \in 1..Len(input) : input[k] = \h20
    /\ \E k \in 1..Len(input) : input[k] = \h07
    /\ \E i \in 1..Len(wire) : marks[i] = "trail" /\ wire[i] = \h10

\* C5 as claimed: no byte of the stream, lead or trail, is 0xFF.
C5_NoByteFF ==
    \A i \in 1..Len(wire) : wire[i] # \hFF

\* C5 amended: no chunk has 0xFF as its lead byte.
C5_NoLeadFF ==
    \A k \in 1..Len(chunks) : chunks[k].bytes[1] # \hFF

C5_Witness ==
    /\ \E k \in 1..Len(chunks) : chunks[k].bytes[1] = \hFE
    /\ \E i \in 1..Len(wire) : marks[i] = "trail" /\ wire[i] = \hFF

\* the bytes of the first n chunks
RECURSIVE Drained(_)
Drained(n) == IF n = 0 THEN <<>> ELSE Drained(n - 1) \o as_slice(chunks[n])

\* C6: reference equivalence.  The bytes drained from the reference
\* encoder for the first chars of the input are the bytes encode_char gave
\* for them, so that the two streams of a whole string are equal.
C6_RefEquivalence ==
    /\ ref.out = Drained(ref.pos)
    /\ ref.pos = Len(input) => ref.out = wire

C6_Witness ==
    /\ ref.pos = Len(input) /\ Len(input) >= 2
    /\ \E k \in 1..Len(chunks) : chunks[k].count = 3
    /\ \E k \in 1..Len(chunks) : chunks[k].count = 4 /\ chunks[k].bytes[1] = \hFE
    /\ ref.out = wire

\* C7 as claimed: a string of code points up to U+007F is its own encoding.
C7_AsciiPassThrough ==
    (\A k \in 1..Len(input) : input[k] <= \h7F) => wire = input

\* C7 amended: a string of code points up to U+0020 is its own encoding.
C7_ControlsPassThrough ==
    (\A k \in 1..Len(input) : input[k] <= \h20) => wire = input

C7_Witness ==
    /\ Len(input) = 3
    /\ input[1] = \h20 /\ input[2] = \h07 /\ input[3] = \h20
    /\ wire = input

\* C8: the decode_char call that consumed a lead byte 0xFF left prev at
\* U+0040.
C8_ResetSetsPrev ==
    (phase = "char" /\ last[1] = "Ok" /\ last[2] = None)
        => state.prev = \h40

\* no reset byte stands between the bytes of one chunk
ResetsAtBoundaries == \A i \in 1..Len(marks) : marks[i] # "midreset"

RECURSIVE C10_ClaimedPrev(_)
C10_ClaimedPrev(s) ==
    IF Len(s) = 0 THEN \h40
    ELSE IF s[Len(s)] > \h20 THEN normalized_prev(s[Len(s)]).ch
    ELSE C10_ClaimedPrev(SubSeq(s, 1, Len(s) - 1))

\* the same, with U+0040 again once a code point below U+0020 has come
RECURSIVE C10_AmendedPrev(_)
C10_AmendedPrev(s) ==
    IF Len(s) = 0 THEN \h40
    ELSE IF s[Len(s)] > \h20 THEN normalized_prev(s[Len(s)]).ch
    ELSE IF s[Len(s)] < \h20 THEN \h40
    ELSE C10_AmendedPrev(SubSeq(s, 1, Len(s) - 1))

\* C10 as claimed: prev of the encoder, and of the decoder, is the attractor
\* of the latest code point that was not self-encoded.
C10_PrevOfLatestDelta ==
    /\ coder.prev = C10_ClaimedPrev(input)
    /\ phase \in {"char", "iter"} => state.prev = C10_ClaimedPrev(decoded)

\* C10 amended: prev is a scalar value; it is the attractor of the latest
\* code point above U+0020 when no code point below U+0020 came after it,
\* and U+0040 otherwise.
C10_PrevInvariant ==
    /\ IsScalar(coder.prev)
    /\ coder.prev = C10_AmendedPrev(input)
    /\ phase \in {"char", "iter"}
           => (IsScalar(state.prev) /\ state.prev = C10_AmendedPrev(decoded))

C10_Witness ==
    /\ Finished /\ decoded = input /\ Len(input) = 3
    /\ input[1] < \h20 /\ input[2] > \h7F /\ input[3] = \h20
    /\ state.prev = coder.prev /\ coder.prev # \h40

\* C11: controls reset the encoder.  A code point below U+0020 is encoded
\* as the one-byte chunk of its value and leaves prev at U+0040; the chunk
\* of the code point after it is the chunk a fresh coder gives.
C11_ControlResets ==
    \A k \in 1..Len(input) :
        input[k] < \h20
            => /\ chunks[k] = new_single(input[k])
               /\ k = Len(input) => coder.prev = \h40
               /\ k < Len(input)
                      => chunks[k + 1] = encode_char(DeltaCoder_new, input[k + 1]).chunk

C11_Witness ==
    /\ Len(input) = 3
    /\ input[1] = \h3042 /\ input[2] = \h07 /\ input[3] = \h172
    /\ chunks[3] = encode_char(DeltaCoder_new, \h172).chunk
    /\ chunks[3].count = 2

\* C12: space leaves the state unchanged.  An encode_char step on U+0020
\* returns the chunk [0x20] and keeps the encoder's prev; a decoder step on
\* a slice that starts with 0x20 yields U+0020, takes one byte and keeps
\* the decoder's prev.
C12_SpaceKeepsPrev ==
    [][/\ (Len(input') = Len(input) + 1 /\ input'[Len(input')] = \h20)
           => /\ chunks' = Append(chunks, new_single(\h20))
              /\ coder' = coder
       /\ (phase \in {"char", "iter"} /\ phase' = phase
              /\ Len(slice) > 0 /\ slice[1] = \h20)
           => /\ decoded' = Append(decoded, \h20)
              /\ slice' = Tail(slice)
              /\ state' = state]_vars

C12_Witness ==
    /\ Len(input) = 3
    /\ input[1] = \h3042 /\ input[2] = \h20 /\ input[3] = \h20
    /\ coder.prev = \h3070
    /\ phase = "char" /\ decoded = input /\ state.prev = \h3070

\* C13: chunk length.  Every chunk has 1 to 4 bytes; the chunk of a code
\* point above U+0020 has its first byte in 0x21..0xFE and as many bytes as
\* the decoder's match on that byte gives: 4 for 0x21 and 0xFE, 3 for
\* 0x22..0x24 and 0xFB..0xFD, 2 for 0x25..0x4F and 0xD0..0xFA, 1 for
\* 0x50..0xCF.
C13_LeadGivesLength ==
    \A k \in 1..Len(chunks) :
        LET lead == chunks[k].bytes[1]
            n    == chunks[k].count
        IN  /\ n \in 1..4
            /\ input[k] <= \h20 => (lead <= \h20 /\ n = 1)
            /\ input[k] > \h20
                   => /\ InRange(lead, \h21, \hFE)
                      /\ n = DecodeRange(lead)[3]
                      /\ n = (IF lead \in {\h21, \hFE} THEN 4
                              ELSE IF InRange(lead, \h22, \h24) \/ InRange(lead, \hFB, \hFD) THEN 3
                              ELSE IF InRange(lead, \h25, \h4F) \/ InRange(lead, \hD0, \hFA) THEN 2
                              ELSE 1)

C13_Witness ==
    /\ Len(chunks) = 3
    /\ chunks[1].bytes[1] = \hFB /\ chunks[1].count = 3
    /\ chunks[2].bytes[1] = \hFE /\ chunks[2].count = 4
    /\ chunks[3].bytes[1] = \h21 /\ chunks[3].count = 4

\* C14: the variable-length code keeps order and is invertible.  Of two
\* deltas of the domain, the chunk of the smaller is the smaller byte
\* string; decode_delta on the chunk of a delta gives back the delta and an
\* empty rest.
C14_OrderAndInverse ==
    /\ probe.fn \in {"encoded", "decoded"}
           => /\ ~probe.e1.panic /\ ~probe.e2.panic
              /\ SeqCmp(as_slice(probe.e1), as_slice(probe.e2))
                     = (IF probe.d1 < probe.d2 THEN -1
                        ELSE IF probe.d1 = probe.d2 THEN 0 ELSE 1)
    /\ probe.fn = "decoded"
           => /\ probe.r1.ok
              /\ probe.r1.delta = probe.d1
              /\ Len(probe.r1.rest) = 0

C14_Witness ==
    /\ probe.fn = "decoded"
    /\ probe.d1 = -\h2DD0D /\ probe.d2 = -\h2DD0C
    /\ probe.e1.count = 4 /\ probe.e2.count = 3
    /\ probe.r1.ok /\ probe.r1.delta = probe.d1

C16_TrailBijection ==
    /\ probe.fn \in {"trail byte", "trail again"}
           => /\ ~probe.b1.panic /\ ~probe.b2.panic
              /\ probe.t1 < probe.t2 => probe.b1.v < probe.b2.v
    /\ probe.fn = "trail again"
           => (probe.r1.ok /\ probe.r1.v = probe.t1)
    /\ probe.fn = "trail"
           => /\ ~probe.r.ok
                     <=> probe.b \in ({\h00, \h1A, \h1B, \h20} \cup (\h07..\h0F))
              /\ ~probe.r.ok => probe.r.err = <<"TrailByteOutOfRange", probe.b>>
              /\ probe.r.ok => InRange(probe.r.v, 0, 242)

C16_Witness ==
    /\ probe.fn = "trail again"
    /\ probe.t1 = \h13 /\ probe.t2 = \h14
    /\ probe.b1.v = \h1F /\ probe.b2.v = \h21
    /\ probe.r1.v = \h13

\* C17: CharDeltaOutOfRange.  A decode_char call fails with
\* CharDeltaOutOfRange(prev, delta) exactly when its slice starts with a
\* lead byte of a delta, the delta decodes and prev + delta is negative, a
\* surrogate or above 0x10FFFF; a call that fails leaves prev and the slice
\* alone; a code point returned is a scalar value.
C17_CharDeltaOutOfRange ==
    [][(phase = "char" /\ Len(slice) > 0)
        => LET init == slice[1]
               dd   == decode_delta(slice)
               sum  == state.prev + dd.delta
               bad  == /\ init > \h20 /\ init # \hFF
                       /\ dd.ok
                       /\ \/ sum < 0
                          \/ InRange(sum, \hD800, \hDFFF)
                          \/ sum > \h10FFFF
           IN  /\ bad <=> (last'[1] = "Err" /\ last'[2] = "CharDeltaOutOfRange")
               /\ bad => last' = <<"Err", "CharDeltaOutOfRange", state.prev, dd.delta>>
               /\ last'[1] = "Err" => (state' = state /\ slice' = slice)
               /\ (last'[1] = "Ok" /\ last'[2] # None)
                      => \/ InRange(last'[2][1], 0, \hD7FF)
                         \/ InRange(last'[2][1], \hE000, \h10FFFF)]_vars

C17_Witness ==
    /\ phase = "char"
    /\ last = <<"Err", "CharDeltaOutOfRange", \hD7C0, \h40>>
    /\ state.prev = \hD7C0
    /\ wire = <<\h20, \hD0, \h01>> /\ slice = <<\hD0, \h01>>

\* C18: TruncatedInput.  A decode_char call on a slice that starts with
\* the lead byte of a delta fails with TruncatedInput exactly when the slice
\* has fewer bytes than the code of that lead byte, whatever its trail
\* bytes are; on any other slice it does not fail so.
C18_TruncatedInput ==
    [][(phase = "char" /\ Len(slice) > 0)
        => LET lead == slice[1]
               len  == IF lead \in {\h21, \hFE} THEN 4
                       ELSE IF InRange(lead, \h22, \h24) \/ InRange(lead, \hFB, \hFD)
                       THEN 3
                       ELSE IF InRange(lead, \h25, \h4F) \/ InRange(lead, \hD0, \hFA)
                       THEN 2
                       ELSE 1
           IN  (last' = <<"Err", "TruncatedInput">>)
                   <=> (InRange(lead, \h21, \hFE) /\ Len(slice) < len)]_vars

C18_Witness ==
    /\ phase = "char"
    /\ last = <<"Err", "TruncatedInput">>
    /\ slice = <<\hFE, \h01, \h20>>

\* the scalar of w bytes whose bytes, most significant first, are the bytes
\* of b and then zero bytes
Padded(b, w) == b \o Zero(w - Len(b))

\* C19: pack.  At every width pack returns no value exactly when the
\* encoded bytes are more than the width's bytes, and otherwise returns the
\* scalar made of the encoded bytes, most significant first, and zero bytes
\* below them.
C19_PackValue ==
    phase \in {"packed", "unpack"}
        => /\ packed.p1 = <<"None">> <=> Len(wire) > packed.w
           /\ Len(wire) <= packed.w => packed.p1 = <<"Some", Padded(wire, packed.w)>>

\* pack of a string that fits in a u8, in a build with overflow checks
C19_Witness ==
    /\ phase = "packed" /\ packed.w = 1 /\ packed.checks
    /\ input = <<\h41>> /\ wire = <<\h91>>
    /\ packed.p1 = <<"Panic">>

\* pack at the widths above one byte, and at one byte without overflow
\* checks, does as C19 says
C19_PackValueUnlessU8Checked ==
    (phase \in {"packed", "unpack"} /\ ~(packed.w = 1 /\ packed.checks))
        => /\ packed.p1 = <<"None">> <=> Len(wire) > packed.w
           /\ Len(wire) <= packed.w => packed.p1 = <<"Some", Padded(wire, packed.w)>>

\* C20: packed round trip.  For a string without U+0000 that pack gave a
\* scalar for, decode_packed_bocu1 on the scalar does not panic, yields a
\* prefix of the string at every step and, once it has stopped, exactly the
\* string, having met no error.
C20_PackedRoundTrip ==
    /\ phase # "panic"
    /\ (phase = "unpack" /\ NoNul(input))
           => /\ Len(decoded) <= Len(input)
              /\ decoded = SubSeq(input, 1, Len(decoded))
              /\ last[1] # "Err"
              /\ last = <<"None">> => decoded = input

C20_Witness ==
    /\ phase = "unpack" /\ packed.w = 8
    /\ Len(input) = 3 /\ NoNul(input) /\ Len(wire) = 8
    /\ last = <<"None">> /\ decoded = input

\* the code points decode_char gives from (st, sl) up to the end of the
\* slice or the first error
RECURSIVE DecodedBeforeError(_, _)
DecodedBeforeError(st, sl) ==
    IF Len(sl) = 0 THEN <<>>
    ELSE LET r == decode_char(st, sl)
         IN  IF r.res[1] = "Err" THEN <<>>
             ELSE (IF r.res[2] = None THEN <<>> ELSE <<r.res[2][1]>>)
                      \o DecodedBeforeError(r.coder, r.res[3])

\* C21: the truncating decoder.  DecodeIter yields code points decoded
\* before the first error and, once next has returned None, exactly those;
\* after None every call of next returns None and yields nothing.  A call
\* that does not return None leaves a shorter slice: on a slice of n bytes
\* next returns None within n + 1 calls.
C21_StopsAtFirstError ==
    /\ [](phase = "iter"
            => LET all == DecodedBeforeError(DeltaCoder_new, wire)
               IN  /\ Len(decoded) <= Len(all)
                   /\ decoded = SubSeq(all, 1, Len(decoded))
                   /\ Finished => decoded = all)
    /\ [][Finished => (Finished' /\ decoded' = decoded)]_vars
    /\ [][(phase = "iter" /\ ~Finished') => Len(slice') < Len(slice)]_vars

C21_Witness ==
    /\ phase = "iter"
    /\ wire = <<\hD0, \hFF, \hD0, \h20, \h91>>
    /\ decoded = <<\h172>>
    /\ last = <<"Err", "TrailByteOutOfRange", \h20>>
    /\ slice = <<\hD0, \h20, \h91>>

\* C22: zero delta.  An encode_char step on the code point the coder holds
\* as prev returns the chunk of the single byte 0x90.
C22_ZeroDelta ==
    [][(Len(input') = Len(input) + 1 /\ input'[Len(input')] = coder.prev)
        => /\ chunks'[Len(chunks')].count = 1
           /\ as_slice(chunks'[Len(chunks')]) = <<\h90>>]_vars

C22_Witness ==
    /\ Len(input) = 3
    /\ input[1] = \h40 /\ input[2] = \h4E00 /\ input[3] = \h7711
    /\ as_slice(chunks[1]) = <<\h90>> /\ as_slice(chunks[3]) = <<\h90>>
    /\ chunks[2].count = 3

\* C23: Unihan coverage.  After a code point of U+4E00..U+9FA5 prev is
\* U+7711, and from there every code point of U+4E00..U+9FA5 has a chunk
\* of at most 2 bytes.
C23_UnihanTwoBytes ==
    probe.fn = "chunk"
        => /\ probe.prev = \h7711
           /\ ~probe.e.panic
           /\ probe.e.count <= 2

C23_Witness ==
    /\ probe.fn = "chunk"
    /\ probe.c0 = \h9FA5 /\ probe.c = \h4E00
    /\ probe.prev = \h7711
    /\ as_slice(probe.e) = <<\h25, \h01>>

\* the value encode_delta splits into digits: delta less the offset of
\* its row
WindowValue(delta) == delta - EncodeRange(delta)[1]

\* the loop of encode_delta with i32 `%` and `/` in place of mod_euc and
\* div_euc
RECURSIVE TruncLoop(_, _)
TruncLoop(i, acc) ==
    IF i < 1 THEN acc
    ELSE LET m  == TruncRem(acc.d, N_TRAIL_VALUES)
             d2 == TruncDiv(acc.d, N_TRAIL_VALUES)
             t  == trail_to_byte(m % 256)
         IN  TruncLoop(i - 1,
                 [buf   |-> [acc.buf EXCEPT ![i + 1] = t.v],
                  d     |-> d2,
                  panic |-> acc.panic \/ ~(0 <= m /\ m <= \hFF) \/ t.panic])

\* the chunk encode_delta would give with i32 `%` and `/`
TruncChunk(delta) ==
    LET sel == EncodeRange(delta)
        acc == TruncLoop(sel[3] - 1,
                   [buf |-> <<sel[2], 0, 0, 0>>,
                    d |-> delta - sel[1], panic |-> FALSE])
        init == acc.buf[1] + acc.d
    IN  [bytes |-> [acc.buf EXCEPT ![1] = init % 256],
         count |-> sel[3],
         panic |-> acc.panic \/ ~(0 < init /\ init <= \hFF)]

\* 243 to the power n
RECURSIVE TrailPower(_)
TrailPower(n) == IF n = 0 THEN 1 ELSE N_TRAIL_VALUES * TrailPower(n - 1)

\* C24 as claimed: for every delta of the domain the value left after
\* subtracting the offset of its row is non-negative, and truncating
\* division and remainder give the chunk that div_euc and mod_euc give.
C24_WindowNonNegative ==
    probe.fn = "encoded"
        => /\ WindowValue(probe.d1) >= 0
           /\ TruncChunk(probe.d1) = probe.e1

\* C24 amended: the value left after subtracting the offset is
\* non-negative exactly for the deltas >= 0.  There, and in the one-byte
\* row where nothing is divided, truncating division gives the chunk of
\* encode_delta.  For a negative delta of a multi-byte row it gives that
\* chunk only when the value is a multiple of 243^(len-1), and otherwise
\* fails the assertion on the digit, where encode_delta does not.
C24_EuclidNeededBelowZero ==
    probe.fn = "encoded"
        => LET delta == probe.d1
               d     == WindowValue(delta)
               len   == EncodeRange(delta)[3]
               t     == TruncChunk(delta)
           IN  /\ ~probe.e1.panic
               /\ (d >= 0) <=> (delta >= 0)
               /\ (delta >= 0 \/ len = 1) => t = probe.e1
               /\ (delta < 0 /\ len > 1)
                      => /\ (t = probe.e1) <=> (d % TrailPower(len - 1) = 0)
                         /\ t # probe.e1 => t.panic

C24_Witness ==
    /\ probe.fn = "encoded"
    /\ probe.d1 = -\h41
    /\ WindowValue(probe.d1) = -1
    /\ as_slice(probe.e1) = <<\h4F, \hFF>>
    /\ TruncChunk(probe.d1).panic

\* a result iterator (on a slice or on a scalar) is being driven
ResultIterating == phase \in {"result", "unpack"}

\* decode_char fails on the head of the remaining slice
HeadFails ==
    /\ Len(slice) > 0
    /\ decode_char(state, slice).res[1] = "Err"

\* C25: the result iterators do not advance on an error.  A call to next
\* when decode_char fails on the head of the remaining slice returns that
\* error and leaves slice and prev as they are; after an error was
\* returned decode_char still fails on the head with the same error, and
\* every later call returns it again, never None and never a char.
C25_StuckOnError ==
    /\ [][(ResultIterating /\ HeadFails)
            => /\ slice' = slice /\ state' = state
               /\ last' = decode_char(state, slice).res
               /\ decoded' = decoded]_vars
    /\ []((ResultIterating /\ last[1] = "Err")
            => /\ HeadFails
               /\ decode_char(state, slice).res = last
               /\ DecodeResultIter_next(state, slice).item = last
               /\ DecodePackedResultIter_next(state, slice).item = last)
    /\ [][(ResultIterating /\ last[1] = "Err")
            => (last' = last /\ slice' = slice /\ state' = state)]_vars

C25_Witness ==
    /\ phase = "result"
    /\ wire = <<\hFB, \h11, \h59, \h4F, \h20, \h91>>
    /\ decoded = <<\h3042>>
    /\ last = <<"Err", "TrailByteOutOfRange", \h20>>
    /\ slice = <<\h4F, \h20, \h91>>
    /\ state.prev = \h3070

\* the same on a scalar: the char before the bad byte is returned, then
\* TruncatedInput at the lead byte that has no trail byte
C25_WitnessPacked ==
    /\ phase = "unpack"
    /\ packed.p1[2] = <<\h91, \h00, \hD0, \h00>>
    /\ decoded = <<\h41>>
    /\ last = <<"Err", "TruncatedInput">>
    /\ slice = <<\hD0>>

\* C26: the encoder has no failure mode.  On every string of scalar values
\* from a fresh coder, prev stays a scalar value in 0x40..0x10FFC0, the
\* delta of every delta-coded code point lies in -0x10FF9F..0x10FFBF, and no
\* encode_char call reaches a panic or a failing assertion: every chunk
\* has 1 to 4 bytes.
C26_EncoderTotal ==
    /\ [](/\ phase # "panic"
          /\ IsScalar(coder.prev) /\ InRange(coder.prev, \h40, \h10FFC0)
          /\ \A k \in 1..Len(chunks) :
                 ~chunks[k].panic /\ chunks[k].count \in 1..4)
    /\ [][(Len(input') = Len(input) + 1 /\ input'[Len(input')] > ASCII_SP)
            => LET curr == input'[Len(input')]
               IN  /\ InRange(curr - coder.prev, -\h10FF9F, \h10FFBF)
                   /\ Len(EncodeRange(curr - coder.prev)) = 3
                   /\ ~normalized_prev(curr).panic]_vars

\* the greatest and the least delta: U+10FFFF from prev 0x40, U+0021 from
\* prev 0x10FFC0
C26_Witness ==
    /\ phase = "encode"
    /\ input = <<\h10FFFF, \h21, \h10FFFF>>
    /\ chunks[1].count = 4 /\ chunks[1].bytes[1] = \hFE
    /\ chunks[2].count = 4 /\ chunks[2].bytes[1] = \h21
    /\ chunks[3] = chunks[1]
    /\ coder.prev = \h10FFC0

\* the encoder's DeltaCoder after encode_char on each code point of s
RECURSIVE EncoderAfter(_)
EncoderAfter(s) ==
    IF Len(s) = 0 THEN DeltaCoder_new
    ELSE encode_char(EncoderAfter(SubSeq(s, 1, Len(s) - 1)), s[Len(s)]).coder

\* C27: encoder and decoder in lock-step.  With nothing injected, a fresh
\* decoder on the encoded bytes of the input that has produced k code
\* points has produced the first k of the input and holds the prev the
\* encoder held after its k-th code point.
C27_LockStep ==
    (phase \in {"char", "iter"} /\ Injected = 0)
        => /\ Len(decoded) <= Len(input)
           /\ decoded = SubSeq(input, 1, Len(decoded))
           /\ state.prev = EncoderAfter(decoded).prev
           /\ decoded = input => state.prev = coder.prev

C27_Witness ==
    /\ phase = "char" /\ Injected = 0
    /\ Len(input) = 3 /\ input[1] = \h3042 /\ input[2] = \h20
    /\ decoded = <<\h3042, \h20>>
    /\ state.prev = \h3070
    /\ coder.prev # \h3070

\* bytes[0..count] of every chunk of cs, in order
RECURSIVE Flatten(_)
Flatten(cs) ==
    IF Len(cs) = 0 THEN <<>>
    ELSE Flatten(SubSeq(cs, 1, Len(cs) - 1)) \o as_slice(cs[Len(cs)])

\* C28: the drain iterator.  The bytes DrainEncodedChunkIter has returned
\* are bytes[0..count] of every chunk the inner iterator has given, in
\* order, as far as index in the chunk being drained; over chunks of
\* encode_char the assertion index < count never fails; None is returned
\* exactly once the inner iterator has ended, with every byte of every
\* chunk returned before it.
C28_DrainConcatenates ==
    /\ phase # "panic"
    /\ IF drainer.drain = None
       THEN wire = Flatten(chunks)
       ELSE /\ Len(chunks) >= 1
            /\ drainer.drain = Some(chunks[Len(chunks)])
            /\ drainer.index \in 1..(chunks[Len(chunks)].count - 1)
            /\ wire = Flatten(SubSeq(chunks, 1, Len(chunks) - 1))
                         \o SubSeq(chunks[Len(chunks)].bytes, 1, drainer.index)
    /\ (drainer.ret = <<"None">>) <=> drainer.ended
    /\ drainer.ended => wire = Flatten(chunks)
    /\ drainer.ret[1] = "Some" => drainer.ret[2] = wire[Len(wire)]

C28_Witness ==
    /\ phase = "encode"
    /\ input = <<\h10FFFF, \h20, \h3042>>
    /\ chunks[1].count = 4 /\ chunks[2].count = 1 /\ chunks[3].count = 4
    /\ Len(wire) = 9 /\ wire = Flatten(chunks)
    /\ drainer.ended /\ drainer.ret = <<"None">>

\* the non-zero bytes of a scalar, most significant first
NonZeroBytes(n) == SelectSeq(n, LAMBDA b : b # 0)

\* decode_packed_bocu1 on the scalar given decodes the non-zero bytes of
\* the scalar: new leaves them as the slice, what is decoded and what is
\* left to decode make up what decode_char gives on them, and new gives the
\* same slice on every scalar, of any width, with the same non-zero bytes
DecodesNonZeroBytes ==
    LET n  == packed.p1[2]
        nz == NonZeroBytes(n)
    IN  /\ last = <<"Start">>
               => /\ slice = nz /\ state = DeltaCoder_new
                  /\ \A w2 \in {2, 4} : \A n2 \in Scalars(w2) :
                         NonZeroBytes(n2) = nz
                             => DecodePackedResultIter_new(n2, w2, packed.checks)
                                    = <<"Some", slice>>
        /\ decoded \o DecodedBeforeError(state, slice)
               = DecodedBeforeError(DeltaCoder_new, nz)

\* C29: unpacking drops every zero byte.  On every scalar
\* DecodePackedResultIter::new collects the non-zero bytes, most
\* significant first, and the iterator decodes that sequence, so scalars
\* with the same non-zero bytes in the same order decode alike.
C29_DropsEveryZeroByte ==
    /\ phase # "panic"
    /\ phase = "unpack" => DecodesNonZeroBytes

\* a u8 given to decode_packed_bocu1 in a build with overflow checks
C29_Witness ==
    /\ phase = "panic"
    /\ packed.w = 1 /\ packed.checks
    /\ packed.p1 = <<"Some", <<\h91>>>>

\* a scalar with a zero byte between its non-zero bytes
C29_WitnessInnerZero ==
    /\ phase = "unpack"
    /\ packed.p1[2] = <<\h91, \h00, \hD0, \hFF>>
    /\ decoded = <<\h41, \h172>>
    /\ last = <<"None">>

\* at the widths above one byte, and at one byte without overflow checks,
\* unpacking does as C29 says
C29_DropsEveryZeroByteUnlessU8Checked ==
    /\ phase = "panic" => (packed.w = 1 /\ packed.checks)
    /\ phase = "unpack" => DecodesNonZeroBytes

=============================================================================
